---- MODULE Spec2Model ----
(***************************************************************************)
(* pandera/decorators.py: the check_input and check_output decorators.     *)
(*                                                                         *)
(* One decorated function is modelled together with the calls made to it.  *)
(* A state holds the decoration (which decorator, schema, obj_getter,      *)
(* head, tail, sample, random_state, the wrapped function fn), the         *)
(* arguments of the call in progress, and what the call did: the calls it  *)
(* made to schema.validate, the calls it made to fn, the warnings it       *)
(* emitted, the order of these events and the outcome that reached the     *)
(* caller.                                                                 *)
(*                                                                         *)
(* Python values are encoded as follows.                                   *)
(*   None / a value v        : <<>> / <<v>>  (head, tail, sample, ...)     *)
(*   a value                 : [kind, id, transformed, items, keys], kind  *)
(*                             "frame" (a dataframe), "list" or "dict"     *)
(*   a str message           : a sequence of strings, concatenated by \o   *)
(*   an outcome              : [kind, exc, msg, value], kind "return" or   *)
(*                             "raise"                                     *)
(***************************************************************************)
EXTENDS Integers, Sequences, FiniteSets, TLC

VARIABLES decorator, schema, obj_getter, head, tail, sample, random_state,
          fn, pc, args, kwargs,
          validateCalls, fnCalls, warned, order, outcome

vars == <<decorator, schema, obj_getter, head, tail, sample, random_state,
          fn, pc, args, kwargs,
          validateCalls, fnCalls, warned, order, outcome>>

(* ------------------------------ bounds --------------------------------- *)

\* number of distinct dataframes a call can be given
MaxObj == 2

\* largest number of positional arguments of a call
MaxLen == 2

(* ------------------------------ values --------------------------------- *)

None == <<>>

Some(v) == <<v>>

\* the dataframes callers pass in: none of them has been transformed yet
Frame(i) ==
    [kind |-> "frame", id |-> i, transformed |-> FALSE, items |-> <<>>, keys |-> <<>>]

Objects == {Frame(i) : i \in 1..MaxObj}

ListOf(items) ==
    [kind |-> "list", id |-> 0, transformed |-> FALSE, items |-> items, keys |-> <<>>]

DictOf(keys, items) ==
    [kind |-> "dict", id |-> 0, transformed |-> FALSE, items |-> items, keys |-> keys]

\* what a schema's transformer makes of a dataframe
Transformed(obj) == [obj EXCEPT !.transformed = TRUE]

EmptyMap == [n \in {} |-> Frame(0)]

SeqsUpTo(S, n) == UNION {[1..k -> S] : k \in 0..n}

Max(a, b) == IF a >= b THEN a ELSE b

Min(a, b) == IF a <= b THEN a ELSE b

\* the value of a function that has not returned one
NoValue ==
    [kind |-> "none", id |-> 0, transformed |-> FALSE, items |-> <<>>, keys |-> <<>>]

Returns(v) == [kind |-> "return", exc |-> "", msg |-> <<>>, value |-> v]

Raises(exc, msg) == [kind |-> "raise", exc |-> exc, msg |-> msg, value |-> NoValue]

NoOutcome == [kind |-> "none", exc |-> "", msg |-> <<>>, value |-> NoValue]

(* --------------------------- Python indexing --------------------------- *)

\* seq[i] of a Python list does not raise IndexError
InRange(s, i) == (i >= 0 /\ i < Len(s)) \/ (i < 0 /\ -i <= Len(s))

\* the 1-based position that the Python index i of a list denotes
Pos(s, i) == IF i >= 0 THEN i + 1 ELSE Len(s) + i + 1

ListIndexError == <<"list index out of range">>

(* ------------------------------ inputs --------------------------------- *)

\* obj_getter as given to the decorator: None, an int, a str, a callable
\* (modelled by the extractor lambda out: out[0]) or a value of any other
\* type (modelled by a float)
GetterNone == [type |-> "none", i |-> 0, s |-> ""]

GetterInt(i) == [type |-> "int", i |-> i, s |-> ""]

GetterStr(s) == [type |-> "str", i |-> 0, s |-> s]

GetterCallable == [type |-> "callable", i |-> 0, s |-> ""]

GetterOther == [type |-> "other", i |-> 0, s |-> ""]

Getters ==
    {GetterNone, GetterCallable, GetterOther}
        \cup {GetterInt(i) : i \in (-1)..MaxLen}
        \cup {GetterStr(s) : s \in {"x", "df", "z"}}

\* type(obj_getter), as "%s" prints it
TypeName(g) ==
    CASE g.type = "none"     -> "<class 'NoneType'>"
      [] g.type = "int"      -> "<class 'int'>"
      [] g.type = "str"      -> "<class 'str'>"
      [] g.type = "callable" -> "<class 'function'>"
      [] OTHER               -> "<class 'float'>"

\* head, tail, sample, random_state as given to the decorator
RowSelections ==
    { <<None, None, None, None>>,
      <<Some(5), None, None, None>>,
      <<Some(1), Some(2), Some(3), Some(4)>> }

\* the schema: only its transformer attribute is read by the decorators
Schemas == {[transformer |-> None], [transformer |-> Some("transformer")]}

\* the wrapped functions.  argnames is inspect.getfullargspec(fn).args, which
\* for a bound method still lists the receiver; isMethod is
\* inspect.ismethod(fn); body says what the function does with what it gets:
\*   def f(x, df): return [x, df]             (a plain function)
\*   def g(df, *rest): return df              (a plain function)
\*   def m(self, x, df, **kw): return kw      (an instance method)
\*   def c(cls, x, df): return [x, df]        (a classmethod)
\*   def v(*a): raise TypeError               (an instance method)
Fns ==
    { [name |-> "f", isMethod |-> FALSE, argnames |-> <<"x", "df">>, body |-> "list"],
      [name |-> "g", isMethod |-> FALSE, argnames |-> <<"df">>, body |-> "frame"],
      [name |-> "m", isMethod |-> TRUE, argnames |-> <<"self", "x", "df">>, body |-> "dict"],
      [name |-> "c", isMethod |-> TRUE, argnames |-> <<"cls", "x", "df">>, body |-> "list"],
      [name |-> "v", isMethod |-> TRUE, argnames |-> <<>>, body |-> "raise"] }

\* the positional arguments of a call (the receiver of a method is not among
\* them: wrapt hands it to the wrapper as instance)
ArgLists == SeqsUpTo(Objects, MaxLen)

\* the keyword arguments of a call: none, or one
KwargMaps ==
    {EmptyMap} \cup {[n \in {k} |-> o] : k \in {"x", "df"}, o \in Objects}

(* ---------------------- the decorators' collaborators ------------------ *)

\* what a call of schema.validate can do
ValidateBehaviours == {"ok", "SchemaError", "IndexError"}

\* schema.validate(obj, head, tail, sample, random_state): the validated
\* frame (transformed when the schema declares a transformer), or a
\* SchemaError when the data violates the schema, or an exception escaping
\* from inside the validation (a check indexing past the end of its data)
SchemaValidate(sch, obj, behaviour) ==
    CASE behaviour = "ok" ->
           [raised |-> "", msg |-> <<>>,
            value |-> IF sch.transformer = None THEN obj ELSE Transformed(obj)]
      [] behaviour = "SchemaError" ->
           [raised |-> "SchemaError", msg |-> <<"schema violation">>, value |-> obj]
      [] OTHER ->
           [raised |-> "IndexError", msg |-> <<"index out of bounds">>, value |-> obj]

\* the entry of validateCalls for one call of schema.validate
ValidateCall(obj, h, t, s, r, v) ==
    [obj |-> obj, head |-> h, tail |-> t, sample |-> s, random_state |-> r,
     raised |-> v.raised, msg |-> v.msg, value |-> v.value]

\* the keys of a dict in insertion order
KeysOf(kw) == IF DOMAIN kw = {} THEN <<>> ELSE <<CHOOSE k \in DOMAIN kw : TRUE>>

\* fn(*a, **kw): what the wrapped function does with its arguments
ApplyFn(f, a, kw) ==
    CASE f.body = "list" ->
           Returns(ListOf(a))
      [] f.body = "frame" ->
           IF a = <<>>
           THEN Raises("TypeError", <<"missing a required argument">>)
           ELSE Returns(a[1])
      [] f.body = "dict" ->
           Returns(DictOf(KeysOf(kw), [j \in 1..Len(KeysOf(kw)) |-> kw[KeysOf(kw)[j]]]))
      [] OTHER ->
           Raises("TypeError", <<"unsupported operand">>)

\* out[obj_getter] for an int or str obj_getter
Subscript(out, g) ==
    CASE out.kind = "list" /\ g.type = "int" ->
           IF InRange(out.items, g.i)
           THEN [raised |-> "", msg |-> <<>>, obj |-> out.items[Pos(out.items, g.i)]]
           ELSE [raised |-> "IndexError", msg |-> ListIndexError, obj |-> NoValue]
      [] out.kind = "list" ->
           [raised |-> "TypeError", msg |-> <<"list indices must be integers">>,
            obj |-> NoValue]
      [] out.kind = "dict" /\ g.type = "str"
            /\ \E j \in 1..Len(out.keys) : out.keys[j] = g.s ->
           [raised |-> "", msg |-> <<>>,
            obj |-> out.items[CHOOSE j \in 1..Len(out.keys) : out.keys[j] = g.s]]
      [] OTHER ->
           [raised |-> "KeyError", msg |-> <<"key not found">>, obj |-> NoValue]

\* obj_getter(out) for the callable obj_getter lambda out: out[0]
Extract(out) == Subscript(out, GetterInt(0))

(* ----------------------- what a call has done so far ------------------- *)

NoEffects == [validateCalls |-> <<>>, fnCalls |-> <<>>, order |-> <<>>]

\* schema.validate has been called
Validated(e, call) ==
    [e EXCEPT !.validateCalls = Append(@, call), !.order = Append(@, "validate")]

\* fn has been called with a and kw, and has ended with res
Invoked(e, a, kw, res) ==
    [e EXCEPT !.fnCalls = Append(@, [args |-> a, kwargs |-> kw, result |-> res]),
              !.order = Append(@, "fn")]

\* the wrapper ends with outcome out
Ended(e, out) == [effects |-> e, outcome |-> out]

(* ---------------------------- _get_fn_argnames ------------------------- *)

\* the declared parameter names of f, without a receiver named "self";
\* arg_spec_args[0] raises IndexError when a method declares no parameter
GetFnArgnames(f) ==
    IF f.isMethod /\ f.argnames = <<>>
    THEN [raised |-> "IndexError", names |-> <<>>]
    ELSE IF f.isMethod /\ f.argnames[1] = "self"
         THEN [raised |-> "", names |-> Tail(f.argnames)]
         ELSE [raised |-> "", names |-> f.argnames]

(* -------------------------------- messages ----------------------------- *)

InputPrefix(fname) ==
    <<"error in check_input decorator of function '", fname, "': ">>

OutputPrefix(fname) ==
    <<"error in check_output decorator of function '", fname, "': ">>

\* the message of the SchemaError raised for an IndexError e, int obj_getter
IndexMessage(fname, i, names, e) ==
    <<"error in check_input decorator of function '", fname,
      "': the index '", ToString(i),
      "' was supplied to the check but this function accepts '",
      ToString(Len(names)),
      "' arguments, so the maximum index is '",
      ToString(Max(0, Len(names) - 1)),
      "'. The full error is: '">> \o e \o <<"'">>

UnrecognizedType(g) == <<"obj_getter is unrecognized type: ", TypeName(g)>>

TransformerWarning(fname) ==
    <<"The schema transformer function has no effect in a check_output decorator. Please perform the necessary transformations in the '",
      fname, "' function instead.">>

(* ------------------------- check_input._wrapper ------------------------ *)

\* return fn(*args, **kwargs)
CallWrapped(e, a, kw) ==
    Ended(Invoked(e, a, kw, ApplyFn(fn, a, kw)), ApplyFn(fn, a, kw))

\* except IndexError as e: raise errors.SchemaError(...)
IndexErrorHandler(e, err) ==
    LET n == GetFnArgnames(fn) IN
    IF n.raised # ""
    THEN Ended(e, Raises(n.raised, ListIndexError))
    ELSE Ended(e, Raises("SchemaError",
                         IndexMessage(fn.name, obj_getter.i, n.names, err)))

\* if isinstance(obj_getter, int)
CheckInputInt(behaviour) ==
    IF ~InRange(args, obj_getter.i)
    THEN IndexErrorHandler(NoEffects, ListIndexError)
    ELSE LET p == Pos(args, obj_getter.i)
             v == SchemaValidate(schema, args[p], behaviour)
             e == Validated(NoEffects,
                            ValidateCall(args[p], None, None, None, None, v))
         IN  CASE v.raised = "" ->
                    CallWrapped(e, [args EXCEPT ![p] = v.value], kwargs)
               [] v.raised = "IndexError" -> IndexErrorHandler(e, v.msg)
               [] OTHER -> Ended(e, Raises(v.raised, v.msg))

\* elif isinstance(obj_getter, str), obj_getter in kwargs
CheckInputKeyword(behaviour) ==
    LET k == obj_getter.s
        v == SchemaValidate(schema, kwargs[k], behaviour)
        e == Validated(NoEffects,
                       ValidateCall(kwargs[k], None, None, None, None, v))
    IN  IF v.raised = ""
        THEN CallWrapped(e, args, [kwargs EXCEPT ![k] = v.value])
        ELSE Ended(e, Raises(v.raised, v.msg))

\* elif isinstance(obj_getter, str), obj_getter not in kwargs
CheckInputNamed(behaviour) ==
    LET n == GetFnArgnames(fn)
        len == Min(Len(n.names), Len(args))
    IN  IF n.raised # ""
        THEN Ended(NoEffects, Raises(n.raised, ListIndexError))
        ELSE IF ~(\E j \in 1..len : n.names[j] = obj_getter.s)
        THEN Ended(NoEffects, Raises("KeyError", <<obj_getter.s>>))
        ELSE LET p == CHOOSE j \in 1..len : n.names[j] = obj_getter.s
                 v == SchemaValidate(schema, args[p], behaviour)
                 e == Validated(NoEffects,
                                ValidateCall(args[p], None, None, None, None, v))
             IN  IF v.raised = ""
                 THEN CallWrapped(e,
                                  [j \in 1..len |-> IF j = p THEN v.value ELSE args[j]],
                                  kwargs)
                 ELSE Ended(e, Raises(v.raised, v.msg))

CheckInputStr(behaviour) ==
    IF obj_getter.s \in DOMAIN kwargs
    THEN CheckInputKeyword(behaviour)
    ELSE CheckInputNamed(behaviour)

\* a wrapper that called fn whatever schema.validate did
CheckInputNoneUnchecked(behaviour) ==
    IF args = <<>>
    THEN Ended(NoEffects, Raises("IndexError", ListIndexError))
    ELSE LET v == SchemaValidate(schema, args[1], behaviour)
             e == Validated(NoEffects,
                            ValidateCall(args[1], head, tail, sample, random_state, v))
         IN  CallWrapped(e, [args EXCEPT ![1] = v.value], kwargs)

\* elif obj_getter is None
CheckInputNone(behaviour) ==
    IF args = <<>>
    THEN Ended(NoEffects, Raises("IndexError", ListIndexError))
    ELSE LET v == SchemaValidate(schema, args[1], behaviour)
             e == Validated(NoEffects,
                            ValidateCall(args[1], head, tail, sample, random_state, v))
         IN  CASE v.raised = "" ->
                    CallWrapped(e, [args EXCEPT ![1] = v.value], kwargs)
               [] v.raised = "SchemaError" ->
                    Ended(e, Raises("SchemaError", InputPrefix(fn.name) \o v.msg))
               [] OTHER -> Ended(e, Raises(v.raised, v.msg))

\* else: raise ValueError
CheckInputOther ==
    Ended(NoEffects, Raises("ValueError", UnrecognizedType(obj_getter)))

CheckInput(behaviour) ==
    CASE obj_getter.type = "int"  -> CheckInputInt(behaviour)
      [] obj_getter.type = "str"  -> CheckInputStr(behaviour)
      [] obj_getter.type = "none" -> CheckInputNone(behaviour)
      [] OTHER                    -> CheckInputOther

(* ------------------------- check_output._wrapper ----------------------- *)

\* a wrapper that warned whatever the schema declares
ShouldWarnAlways(sch) == TRUE

\* if schema.transformer is not None
ShouldWarn(sch) == sch.transformer # None

\* the warnings a call emits before it invokes fn
Warnings(sch, f) == IF ShouldWarn(sch) THEN <<TransformerWarning(f.name)>> ELSE <<>>

\* the selection of the object to validate in the output out of fn
SelectOutput(out) ==
    CASE obj_getter.type = "none" -> [raised |-> "", msg |-> <<>>, obj |-> out]
      [] obj_getter.type \in {"int", "str"} -> Subscript(out, obj_getter)
      [] obj_getter.type = "callable" -> Extract(out)
      [] OTHER -> [raised |-> "ValueError", msg |-> UnrecognizedType(obj_getter),
                   obj |-> NoValue]

\* a wrapper that returned what schema.validate returned
OutputResultValidated(out, v) == Returns(v.value)

\* return out
OutputResult(out, v) == Returns(out)

\* try: schema.validate(obj, head, tail, sample, random_state) ... return out
ValidateOutput(sch, e, out, obj, behaviour) ==
    LET v  == SchemaValidate(sch, obj, behaviour)
        e1 == Validated(e, ValidateCall(obj, head, tail, sample, random_state, v))
    IN  CASE v.raised = "" -> Ended(e1, OutputResult(out, v))
          [] v.raised = "SchemaError" ->
               Ended(e1, Raises("SchemaError", OutputPrefix(fn.name) \o v.msg))
          [] OTHER -> Ended(e1, Raises(v.raised, v.msg))

\* the wrapper of a check_output whose schema is sch
CheckOutputWith(sch, behaviour) ==
    LET e0  == [NoEffects EXCEPT
                  !.order = IF Warnings(sch, fn) # <<>> THEN <<"warn">> ELSE <<>>]
        res == ApplyFn(fn, args, kwargs)
        e1  == Invoked(e0, args, kwargs, res)
    IN  IF res.kind = "raise"
        THEN Ended(e1, res)
        ELSE LET sel == SelectOutput(res.value) IN
             IF sel.raised # ""
             THEN Ended(e1, Raises(sel.raised, sel.msg))
             ELSE ValidateOutput(sch, e1, res.value, sel.obj, behaviour)

CheckOutput(behaviour) == CheckOutputWith(schema, behaviour)

(* ------------------------------ the machine ---------------------------- *)

Init ==
    /\ decorator \in {"check_input", "check_output"}
    /\ schema \in Schemas
    /\ obj_getter \in Getters
    /\ \E rs \in RowSelections :
          /\ head = rs[1]
          /\ tail = rs[2]
          /\ sample = rs[3]
          /\ random_state = rs[4]
    /\ fn \in Fns
    /\ pc = "decorated"
    /\ args = <<>>
    /\ kwargs = EmptyMap
    /\ validateCalls = <<>>
    /\ fnCalls = <<>>
    /\ warned = <<>>
    /\ order = <<>>
    /\ outcome = NoOutcome

decoration == <<decorator, schema, obj_getter, head, tail, sample, random_state, fn>>

\* the decorated function is called
Call ==
    /\ pc = "decorated"
    /\ args' \in ArgLists
    /\ kwargs' \in KwargMaps
    /\ pc' = "called"
    /\ UNCHANGED <<decoration, validateCalls, fnCalls, warned, order, outcome>>

\* check_input's _wrapper runs
CheckInputWrapper ==
    /\ pc = "called"
    /\ decorator = "check_input"
    /\ \E behaviour \in ValidateBehaviours :
          LET r == CheckInput(behaviour) IN
          /\ validateCalls' = r.effects.validateCalls
          /\ fnCalls' = r.effects.fnCalls
          /\ order' = r.effects.order
          /\ outcome' = r.outcome
    /\ warned' = <<>>
    /\ pc' = "done"
    /\ UNCHANGED <<decoration, args, kwargs>>

\* check_output's _wrapper runs
CheckOutputWrapper ==
    /\ pc = "called"
    /\ decorator = "check_output"
    /\ \E behaviour \in ValidateBehaviours :
          LET r == CheckOutput(behaviour) IN
          /\ validateCalls' = r.effects.validateCalls
          /\ fnCalls' = r.effects.fnCalls
          /\ order' = r.effects.order
          /\ outcome' = r.outcome
    /\ warned' = Warnings(schema, fn)
    /\ pc' = "done"
    /\ UNCHANGED <<decoration, args, kwargs>>

\* the caller has the outcome; the decorated function can be called again
Return ==
    /\ pc = "done"
    /\ pc' = "decorated"
    /\ args' = <<>>
    /\ kwargs' = EmptyMap
    /\ validateCalls' = <<>>
    /\ fnCalls' = <<>>
    /\ warned' = <<>>
    /\ order' = <<>>
    /\ outcome' = NoOutcome
    /\ UNCHANGED decoration

Next == Call \/ CheckInputWrapper \/ CheckOutputWrapper \/ Return

Spec == Init /\ [][Next]_vars

(* ------------------------------- the claims ---------------------------- *)

Done == pc = "done"

IsInput == decorator = "check_input"

IsOutput == decorator = "check_output"

\* the declared parameter list of f with the implicit receiver excluded
ParamsWithoutReceiver(f) ==
    IF f.isMethod /\ f.argnames # <<>> THEN Tail(f.argnames) ELSE f.argnames

\* the positions of the positional arguments that are bound to parameter name
BoundPositions(name) ==
    {j \in 1..Min(Len(ParamsWithoutReceiver(fn)), Len(args)) :
        ParamsWithoutReceiver(fn)[j] = name}

\* check_input's obj_getter selects one of the arguments of the call
SelectsArgument ==
    CASE obj_getter.type = "none" -> args # <<>>
      [] obj_getter.type = "int"  -> InRange(args, obj_getter.i)
      [] obj_getter.type = "str"  ->
           obj_getter.s \in DOMAIN kwargs \/ BoundPositions(obj_getter.s) # {}
      [] OTHER -> FALSE

SelectedByKeyword == obj_getter.type = "str" /\ obj_getter.s \in DOMAIN kwargs

\* the position of the selected positional argument
SelectedPosition ==
    CASE obj_getter.type = "none" -> 1
      [] obj_getter.type = "int"  -> Pos(args, obj_getter.i)
      [] OTHER -> CHOOSE j \in BoundPositions(obj_getter.s) : TRUE

SelectedArgument ==
    IF SelectedByKeyword THEN kwargs[obj_getter.s] ELSE args[SelectedPosition]

\* what the call c of fn got in the slot of the selected argument
ReceivedInSlot(c) ==
    IF SelectedByKeyword
    THEN IF obj_getter.s \in DOMAIN c.kwargs THEN c.kwargs[obj_getter.s] ELSE NoValue
    ELSE IF SelectedPosition <= Len(c.args) THEN c.args[SelectedPosition] ELSE NoValue

\* C1: under check_input, for obj_getter None, an int or a str, schema.validate
\* is handed exactly the selected argument (positional 0, positional i, or the
\* argument bound to the name, by keyword or by position with the receiver
\* left out of the parameter list), and fn gets the value schema.validate
\* returned in that same slot.
C1_ValidatesSelectedArgument ==
    (Done /\ IsInput /\ SelectsArgument) =>
        /\ Len(validateCalls) = 1
        /\ validateCalls[1].obj = SelectedArgument
        /\ validateCalls[1].raised = "" =>
              /\ Len(fnCalls) = 1
              /\ ReceivedInSlot(fnCalls[1]) = validateCalls[1].value

\* C2: check_output is observe-only: when validation succeeds the call returns
\* exactly what fn returned, whatever obj_getter is and whether or not the
\* schema declares a transformer; it never returns what schema.validate returned
\* in its place.
C2_OutputReturnedUnchanged ==
    (Done /\ IsOutput /\ validateCalls # <<>> /\ validateCalls[1].raised = "") =>
        /\ Len(fnCalls) = 1
        /\ outcome.kind = "return"
        /\ outcome.value = fnCalls[1].result.value

\* a check_output call whose schema transforms, so that schema.validate returned
\* another frame than the one that the call returned
C2_Witness ==
    /\ Done /\ IsOutput
    /\ schema.transformer # None
    /\ Len(validateCalls) = 1
    /\ validateCalls[1].raised = ""
    /\ outcome.kind = "return"
    /\ validateCalls[1].value # validateCalls[1].obj
    /\ outcome.value = validateCalls[1].obj

\* the prefix that a decorator puts before the message of a SchemaError
ErrorPrefix == IF IsInput THEN InputPrefix(fn.name) ELSE OutputPrefix(fn.name)

\* C3: whenever schema.validate raises a SchemaError in a wrapper, a SchemaError
\* reaches the caller and its message is "error in <decorator> decorator of
\* function '<name>': " followed by the original message.
C3_SchemaErrorPrefixed ==
    (Done /\ validateCalls # <<>> /\ validateCalls[1].raised = "SchemaError") =>
        /\ outcome.kind = "raise"
        /\ outcome.exc = "SchemaError"
        /\ outcome.msg = ErrorPrefix \o validateCalls[1].msg

\* C4: every call of schema.validate is given the head, tail, sample and
\* random_state of the decorator.
C4_RowSelectionForwarded ==
    Done =>
        \A j \in 1..Len(validateCalls) :
            /\ validateCalls[j].head = head
            /\ validateCalls[j].tail = tail
            /\ validateCalls[j].sample = sample
            /\ validateCalls[j].random_state = random_state

\* the selector is out of range, names nothing, or is of an unsupported type
BadSelector ==
    \/ IsInput /\ obj_getter.type \in {"int", "str"} /\ ~SelectsArgument
    \/ IsInput /\ obj_getter.type \in {"callable", "other"}
    \/ IsOutput /\ obj_getter.type = "other"
    \/ /\ IsOutput /\ obj_getter.type \in {"int", "str"}
       /\ fnCalls # <<>> /\ fnCalls[1].result.kind = "return"
       /\ Subscript(fnCalls[1].result.value, obj_getter).raised # ""

\* C5: a bad selector ends the call with an error that is not a SchemaError, and
\* a SchemaError reaches the caller only when the data violates the schema.
C5_BadSelectorIsNotSchemaError ==
    Done =>
        /\ BadSelector => (outcome.kind = "raise" /\ outcome.exc # "SchemaError")
        /\ (outcome.kind = "raise" /\ outcome.exc = "SchemaError") =>
              (validateCalls # <<>> /\ validateCalls[1].raised = "SchemaError")

\* the call as it would go for a schema that declares no transformer, with
\* schema.validate finding the same as it did
Untransformed ==
    CheckOutputWith([transformer |-> None],
                    IF validateCalls = <<>> \/ validateCalls[1].raised = ""
                    THEN "ok" ELSE validateCalls[1].raised)

\* C6: a check_output call warns if and only if schema.transformer is not None;
\* the warning changes nothing else: fn is invoked, schema.validate is called on
\* the selected output, and the outcome is the one of the same call with no
\* transformer declared.
C6_WarningIffTransformer ==
    (Done /\ IsOutput) =>
        /\ (warned # <<>>) <=> (schema.transformer # None)
        /\ Len(warned) <= 1
        /\ Len(fnCalls) = 1
        /\ fnCalls = Untransformed.effects.fnCalls
        /\ Len(validateCalls) = Len(Untransformed.effects.validateCalls)
        /\ \A j \in 1..Len(validateCalls) :
              validateCalls[j].obj = Untransformed.effects.validateCalls[j].obj
        /\ outcome = Untransformed.outcome

\* a check_output call that warned, validated the output and returned it
C6_Witness ==
    /\ Done /\ IsOutput
    /\ warned = <<TransformerWarning(fn.name)>>
    /\ order = <<"warn", "fn", "validate">>
    /\ outcome.kind = "return"

\* the two arguments lists differ at position j
DiffersAt(a, b, j) == j > Len(a) \/ j > Len(b) \/ a[j] # b[j]

\* C7: check_input changes only the selected argument: fn gets as many
\* positional arguments as the caller passed, in the same order, and the same
\* keyword arguments, each identical to the original but the selected one.
C7_OnlySelectedArgumentChanges ==
    (Done /\ IsInput /\ fnCalls # <<>>) =>
        LET c == fnCalls[1] IN
        /\ Len(c.args) = Len(args)
        /\ DOMAIN c.kwargs = DOMAIN kwargs
        /\ Cardinality({j \in 1..Len(args) : DiffersAt(c.args, args, j)})
             + Cardinality({k \in DOMAIN kwargs :
                              k \notin DOMAIN c.kwargs \/ c.kwargs[k] # kwargs[k]}) <= 1

\* the calls of schema.validate and of fn, in the order they were made
CallOrder == SelectSeq(order, LAMBDA x : x # "warn")

C9_UnsupportedTypeRaisedFirst ==
    (Done /\ (\/ IsInput /\ obj_getter.type \in {"callable", "other"}
              \/ IsOutput /\ obj_getter.type = "other")) =>
        /\ outcome.kind = "raise"
        /\ fnCalls = <<>>
        /\ validateCalls = <<>>

\* the outcome is the SchemaError that reports an index out of range
ReportsIndex ==
    /\ outcome.kind = "raise"
    /\ outcome.exc = "SchemaError"
    /\ Len(outcome.msg) >= 9
    /\ outcome.msg[3] = "': the index '"

\* C10: under check_input with an int obj_getter, the error "the index was
\* supplied to the check but this function accepts N arguments" is raised only
\* when obj_getter is outside the range of the positional arguments of the
\* call, never for an exception from inside schema.validate, and N and the
\* maximum index of the message are those of the arguments that were indexed.
C10_IndexReportOnlyOutOfRange ==
    (Done /\ IsInput /\ obj_getter.type = "int" /\ ReportsIndex) =>
        /\ ~InRange(args, obj_getter.i)
        /\ validateCalls = <<>>
        /\ outcome.msg[6] = ToString(Len(args))
        /\ outcome.msg[8] = ToString(Max(0, Len(args) - 1))

====
